---- MODULE Spec2Model ----
(***************************************************************************)
(* Model of the Brick Pop solver's search engine (src/solve.py):           *)
(*   solve_board_dfs  - the single-process depth-first search,             *)
(*   solution_search  - the search each worker process runs,               *)
(*   chunk            - the split of the root moves over the workers,      *)
(*   parallel_solve   - the coordinator: queue, processes, get, terminate, *)
(*                      join, return.                                      *)
(* The Board class (board.py) is imported by solve.py but its source is    *)
(* not part of src/; the board operations below follow sections 3 and 4.1  *)
(* of the specification.                                                   *)
(* solve.py is Python 2 (print statements, str.encode('hex')): round()     *)
(* rounds halves away from zero.                                           *)
(***************************************************************************)
EXTENDS Integers, Sequences, FiniteSets, TLC

\* ------------------------------------------------------------------ bounds
\* Side of the square grid (10 in the observed configuration).
N == 3
\* Number of colours used by the generated corner boards.
NumColors == 2
\* Longest list and largest part count handed to chunk() in ChunkSpec.
MaxLen == 12
MaxParts == 8

\* ------------------------------------------------------- program constants
NUM_PARALLEL_PROCESSES == 8

\* ---------------------------------------------------------------- values
EmptyColor == 0
Rows == 0 .. (N - 1)
Coords == Rows \X Rows

\* Python's None, and a tuple of steps; kept apart so that the empty tuple
\* () and None are different values.
None == [none |-> TRUE, steps |-> <<>>]
Steps(s) == [none |-> FALSE, steps |-> s]

Min(a, b) == IF a < b THEN a ELSE b

\* ------------------------------------------------------------ board model
\* A board holds one cell state per coordinate, stored row by row.
cell_index(c) == c[1] * N + c[2] + 1

\* Board.from_coordinate_map: the board of a complete coordinate -> colour map.
from_coordinate_map(map) ==
    SubSeq([k \in 1 .. N * N |-> map[<<(k - 1) \div N, (k - 1) % N>>]], 1, N * N)

at(b, c) == b[cell_index(c)]

is_solved(b) == \A c \in Coords : at(b, c) = EmptyColor

Adjacent(c, d) ==
    \/ c[1] = d[1] /\ (c[2] = d[2] + 1 \/ d[2] = c[2] + 1)
    \/ c[2] = d[2] /\ (c[1] = d[1] + 1 \/ d[1] = c[1] + 1)

grow(b, color, seen) ==
    seen \cup {d \in Coords : at(b, d) = color /\ \E c \in seen : Adjacent(c, d)}

RECURSIVE flood_fill(_, _, _)
fill_more(b, color, seen, grown) ==
    IF grown = seen THEN seen ELSE flood_fill(b, color, grown)

flood_fill(b, color, seen) == fill_more(b, color, seen, grow(b, color, seen))

component(b, c) == flood_fill(b, at(b, c), {c})

is_legal(b, c) ==
    /\ c \in Coords
    /\ at(b, c) # EmptyColor
    /\ Cardinality(component(b, c)) >= 2

remove(b, cells) ==
    from_coordinate_map([c \in Coords |-> IF c \in cells THEN EmptyColor ELSE at(b, c)])

\* The coloured cells of column j, top to bottom.
column(b, j) ==
    SelectSeq([i \in 1 .. N |-> at(b, <<i - 1, j>>)], LAMBDA x : x # EmptyColor)

fallen(col, i) == IF i < N - Len(col) THEN EmptyColor ELSE col[i - (N - Len(col)) + 1]

gravity(b) ==
    from_coordinate_map([c \in Coords |-> fallen(column(b, c[2]), c[1])])

kept_columns(b) ==
    SelectSeq([j \in 1 .. N |-> j - 1],
              LAMBDA j : \E i \in Rows : at(b, <<i, j>>) # EmptyColor)

shifted(b, kept, c) ==
    IF c[2] + 1 <= Len(kept) THEN at(b, <<c[1], kept[c[2] + 1]>>) ELSE EmptyColor

collapse(b) ==
    from_coordinate_map([c \in Coords |-> shifted(b, kept_columns(b), c)])

\* Board.pop_from: the board after tapping c (c is a legal move).
pop_from(b, c) == collapse(gravity(remove(b, component(b, c))))

RECURSIVE scan_moves(_, _, _)
scan_cell(b, k, visited, c, cells) ==
    IF Cardinality(cells) >= 2
    THEN <<(<<c, pop_from(b, c)>>)>> \o scan_moves(b, k + 1, visited \cup cells)
    ELSE scan_moves(b, k + 1, visited \cup cells)

scan_at(b, k, visited, c) ==
    IF at(b, c) = EmptyColor \/ c \in visited
    THEN scan_moves(b, k + 1, visited)
    ELSE scan_cell(b, k, visited, c, component(b, c))

scan_moves(b, k, visited) ==
    IF k >= N * N THEN <<>>
    ELSE scan_at(b, k, visited, <<k \div N, k % N>>)

\* Board.available_moves: [(Coordinate, Board), ...], one entry per connected
\* component of size >= 2, in row-major order of the component's first cell.
available_moves(b) == scan_moves(b, 0, {})

\* ------------------------------------------------------- solve_board_dfs
RECURSIVE solve_board_dfs(_, _)
RECURSIVE valid_solutions(_, _)

valid_solutions_first_only(moves, steps) ==
    IF moves = <<>> THEN None
    ELSE solve_board_dfs(moves[1][2], Append(steps, moves[1][1]))

\* next(valid_solutions, None): the first recursive result that is not None.
first_valid(r, moves, steps) ==
    IF r # None THEN r ELSE valid_solutions(Tail(moves), steps)

valid_solutions(moves, steps) ==
    IF moves = <<>> THEN None
    ELSE first_valid(solve_board_dfs(moves[1][2], Append(steps, moves[1][1])), moves, steps)

solve_board_dfs(board0, steps) ==
    IF is_solved(board0) THEN Steps(steps)
    ELSE valid_solutions(available_moves(board0), steps)

\* The calls of solve_board_dfs made while solving board0, each named by its
\* steps argument, in the order they are made.  possible_solutions and
\* valid_solutions are generators: next() pulls recursive calls one sibling
\* at a time and stops pulling at the first result that is not None.
RECURSIVE dfs_calls(_, _)
RECURSIVE sibling_calls(_, _)

pull_all(r, sub, moves, steps) == sub \o sibling_calls(Tail(moves), steps)

pull_until_valid(r, sub, moves, steps) ==
    IF r # None THEN sub ELSE sub \o sibling_calls(Tail(moves), steps)

sibling_calls(moves, steps) ==
    IF moves = <<>> THEN <<>>
    ELSE pull_until_valid(solve_board_dfs(moves[1][2], Append(steps, moves[1][1])),
                          dfs_calls(moves[1][2], Append(steps, moves[1][1])),
                          moves, steps)

dfs_calls(board0, steps) ==
    IF is_solved(board0) THEN <<steps>>
    ELSE <<steps>> \o sibling_calls(available_moves(board0), steps)

\* ------------------------------------------------------------------ chunk
\* int(round(len(arr) / float(n))), Python 2 rounding.
slice_length(len, n) == (2 * len + n) \div (2 * n)

\* arr[lo:hi] of Python, 0-based and clamped to the list.
slice(arr, lo, hi) == SubSeq(arr, Min(lo, Len(arr)) + 1, Min(hi, Len(arr)))

chunk(arr, n) ==
    LET sl == slice_length(Len(arr), n)
    IN  [i \in 1 .. n |-> slice(arr, (i - 1) * sl, i * sl)]

\* ------------------------------------------------------------ input boards
\* A board given by its rows (top to bottom), placed in the bottom-left of
\* the grid; every other cell is Empty.
row_cell(rows, i, j) ==
    IF i >= 1 /\ j <= Len(rows[i]) THEN rows[i][j] ELSE EmptyColor

from_rows(rows) ==
    from_coordinate_map([c \in Coords |-> row_cell(rows, c[1] - (N - Len(rows)) + 1, c[2] + 1)])

\* Every colouring (Empty included) of the 2x2 corner at the bottom-left.
CornerBoards ==
    {from_rows(<<(<<a, b>>), (<<c, d>>)>>) :
        a \in 0 .. NumColors, b \in 0 .. NumColors,
        c \in 0 .. NumColors, d \in 0 .. NumColors}

\* 3x3 boards with four root-level moves.
RaceBoard      == from_rows(<<(<<1, 1, 2>>), (<<3, 3, 2>>), (<<2, 1, 1>>)>>)
DeadFirstBoard == from_rows(<<(<<1, 2, 2>>), (<<1, 3, 3>>), (<<2, 2, 1>>)>>)
TwiceBoard     == from_rows(<<(<<1, 1, 2>>), (<<2, 3, 3>>), (<<2, 1, 1>>)>>)
StuckBoard     == from_rows(<<(<<1, 1, 2>>), (<<2, 3, 2>>), (<<2, 1, 1>>)>>)

InitBoards == CornerBoards \cup {RaceBoard, DeadFirstBoard, TwiceBoard, StuckBoard}

\* ------------------------------------------------------------------ state
VARIABLES
    mode,       \* which entry point is called: "serial" or "parallel"
    board,      \* the board handed to the solver
    pc,         \* position of the calling process
    result,     \* the value returned (None until then)
    arr,        \* chunk(): the list being split
    n,          \* chunk(): the number of parts
    chunks,     \* chunk(): the parts returned
    processes,  \* parallel_solve: the list of worker processes
    idx,        \* parallel_solve: index of the running for-loop
    queue,      \* the multiprocessing.Queue, oldest value first
    solution,   \* the value queue.get() returned
    arrivals,   \* history: every value put on the queue, in arrival order
    joined,     \* history: the processes join() was called on
    calls       \* history: the calls of solve_board_dfs, by their steps argument

vars == <<mode, board, pc, result, arr, n, chunks, processes, idx, queue,
          solution, arrivals, joined, calls>>

Workers == 1 .. NUM_PARALLEL_PROCESSES

chunk_vars == <<arr, n, chunks>>
parallel_vars == <<processes, idx, queue, solution, arrivals, joined>>

Init ==
    /\ mode \in {"serial", "parallel", "search"}
    /\ board \in InitBoards
    /\ pc = "call"
    /\ result = None
    /\ arr = <<>>
    /\ n = 0
    /\ chunks = <<>>
    /\ processes = <<>>
    /\ idx = 0
    /\ queue = <<>>
    /\ solution = None
    /\ arrivals = <<>>
    /\ joined = {}
    /\ calls = <<>>

\* ---------------------------------------------------------- serial solver
SerialSolve ==
    /\ mode = "serial"
    /\ pc = "call"
    /\ result' = solve_board_dfs(board, <<>>)
    /\ calls' = dfs_calls(board, <<>>)
    /\ pc' = "done"
    /\ UNCHANGED <<mode, board, chunk_vars, parallel_vars>>

\* ------------------------------------------------------- solution_search
\* One activation of solution_search: the moves its for-loop has still to
\* visit and the steps it was called with.
frame(moves, steps) == [moves |-> moves, steps |-> steps]

solution_steps_dropped(steps, step) == steps

solution_steps_twice(steps, step) == Append(Append(steps, step), step)

\* solution_steps = steps + (step,)
solution_steps(steps, step) == Append(steps, step)

\* Return from every activation whose for-loop has nothing left to visit.
RECURSIVE unwind(_)
unwind(stack) ==
    IF stack = <<>> THEN <<>>
    ELSE IF stack[Len(stack)].moves = <<>> THEN unwind(SubSeq(stack, 1, Len(stack) - 1))
    ELSE stack

\* One activation of solution_search run up to and including its next
\* queue.put, the activations it calls included: the value put (<<>> when
\* its for-loop ends without one) and the activations that are left, from
\* this one down to the one that put.
RECURSIVE explore(_)

\* The recursive call has come back (sub): the search goes on inside it
\* after a put, and with the next sibling otherwise.
descend(sub, rest) ==
    IF sub.put # <<>> THEN [stack |-> <<rest>> \o sub.stack, put |-> sub.put]
    ELSE explore(rest)

visit(top, move, ss) ==
    IF is_solved(move[2]) THEN [stack |-> <<>>, put |-> <<ss>>]
    ELSE descend(explore(frame(available_moves(move[2]), ss)),
                 frame(Tail(top.moves), top.steps))

explore_last_first(top) ==
    IF top.moves = <<>> THEN [stack |-> <<>>, put |-> <<>>]
    ELSE visit([top EXCEPT !.moves = <<top.moves[Len(top.moves)]>>
                                         \o SubSeq(top.moves, 1, Len(top.moves) - 1)],
               top.moves[Len(top.moves)],
               solution_steps(top.steps, top.moves[Len(top.moves)][1]))

explore(top) ==
    IF top.moves = <<>> THEN [stack |-> <<>>, put |-> <<>>]
    ELSE visit(top, Head(top.moves), solution_steps(top.steps, Head(top.moves)[1]))

\* solution_search run from the given stack of activations up to and
\* including its next queue.put, or to its end when it puts nothing more:
\* the stack it is left with and the value it put (<<>> when none).  What a
\* worker does between two puts touches nothing another process can see.
\* A step ends at the put: the process is still alive with the value on the
\* queue, and returns through its activations and exits in a later step, so
\* the coordinator can get the value and terminate the worker in between.
RECURSIVE run(_)
resume(below, r) ==
    IF r.put # <<>> THEN [stack |-> unwind(below \o r.stack), put |-> r.put]
    ELSE run(below)

run(stack) ==
    IF stack = <<>> THEN [stack |-> <<>>, put |-> <<>>]
    ELSE resume(SubSeq(stack, 1, Len(stack) - 1), explore(stack[Len(stack)]))

WorkerRan(i, r) ==
    /\ processes' = [processes EXCEPT
                        ![i].stack = r.stack,
                        ![i].state = IF r.put = <<>> THEN "exited" ELSE "started"]
    /\ queue' = queue \o r.put
    /\ arrivals' = arrivals \o [k \in 1 .. Len(r.put) |-> [by |-> i, steps |-> r.put[k]]]

WorkerStep(i) ==
    /\ mode \in {"parallel", "search"}
    /\ i \in DOMAIN processes
    /\ processes[i].state = "started"
    /\ WorkerRan(i, run(processes[i].stack))
    /\ UNCHANGED <<mode, board, pc, result, chunk_vars, idx, solution, joined, calls>>

\* solution_search(queue, board.available_moves()) called once, outside
\* parallel_solve, with every root-level move.
SearchCall ==
    /\ mode = "search"
    /\ pc = "call"
    /\ processes' = <<[args |-> available_moves(board), state |-> "started",
                       stack |-> <<frame(available_moves(board), <<>>)>>,
                       terminated |-> FALSE]>>
    /\ queue' = <<>>
    /\ pc' = "search"
    /\ UNCHANGED <<mode, board, result, chunk_vars, idx, solution, arrivals, joined, calls>>

\* -------------------------------------------------------- parallel_solve
\* queue = Queue(); processes = [Process(..., args=(queue, chunked_move))
\*                               for chunked_move in chunk(moves, 8)]
ParallelCreate ==
    /\ mode = "parallel"
    /\ pc = "call"
    /\ arr' = available_moves(board)
    /\ n' = NUM_PARALLEL_PROCESSES
    /\ chunks' = chunk(arr', n')
    /\ processes' = [i \in 1 .. Len(chunks') |->
                        [args |-> chunks'[i], state |-> "initial", stack |-> <<>>,
                         terminated |-> FALSE]]
    /\ queue' = <<>>
    /\ idx' = 1
    /\ pc' = "start"
    /\ UNCHANGED <<mode, board, result, solution, arrivals, joined, calls>>

\* for p in processes: p.start()
StartProcess ==
    /\ pc = "start"
    /\ idx <= Len(processes)
    /\ processes' = [processes EXCEPT
                        ![idx].state = "started",
                        ![idx].stack = <<frame(processes[idx].args, <<>>)>>]
    /\ idx' = idx + 1
    /\ pc' = IF idx = Len(processes) THEN "get" ELSE "start"
    /\ UNCHANGED <<mode, board, result, chunk_vars, queue, solution, arrivals, joined, calls>>

\* p.start() raises (the process cannot be created): nothing catches it, so
\* the exception leaves parallel_solve.
StartFails ==
    /\ pc = "start"
    /\ idx <= Len(processes)
    /\ pc' = "raised"
    /\ UNCHANGED <<mode, board, result, chunk_vars, parallel_vars, calls>>

queue_get_newest(q) == q[Len(q)]

\* The value a get() takes from a non-empty queue.
queue_get(q) == Head(q)

\* solution = queue.get(): blocks while the queue is empty.
QueueGet ==
    /\ pc = "get"
    /\ queue # <<>>
    /\ solution' = Steps(queue_get(queue))
    /\ queue' = Tail(queue)
    /\ idx' = 1
    /\ pc' = "terminate"
    /\ UNCHANGED <<mode, board, result, chunk_vars, processes, arrivals, joined, calls>>

TerminateSignalLost ==
    /\ pc = "terminate"
    /\ idx <= Len(processes)
    /\ processes' = [processes EXCEPT ![idx].terminated = TRUE]
    /\ idx' = idx + 1
    /\ pc' = IF idx = Len(processes) THEN "join" ELSE "terminate"
    /\ UNCHANGED <<mode, board, result, chunk_vars, queue, solution, arrivals, joined, calls>>

\* for p in processes: p.terminate()
Terminate ==
    /\ pc = "terminate"
    /\ idx <= Len(processes)
    /\ processes' = [processes EXCEPT
                        ![idx].terminated = TRUE,
                        ![idx].state = IF processes[idx].state = "started"
                                       THEN "killed" ELSE processes[idx].state]
    /\ idx' = idx + 1
    /\ pc' = IF idx = Len(processes) THEN "join" ELSE "terminate"
    /\ UNCHANGED <<mode, board, result, chunk_vars, queue, solution, arrivals, joined, calls>>

\* p.join(), p being the last process of the terminate loop; return solution
JoinAndReturn ==
    /\ pc = "join"
    /\ processes[Len(processes)].state # "started"
    /\ joined' = joined \cup {Len(processes)}
    /\ result' = solution
    /\ pc' = "done"
    /\ UNCHANGED <<mode, board, chunk_vars, processes, idx, queue, solution, arrivals, calls>>

Next ==
    \/ SerialSolve
    \/ SearchCall
    \/ ParallelCreate
    \/ StartProcess
    \/ StartFails
    \/ \E i \in Workers : WorkerStep(i)
    \/ QueueGet
    \/ Terminate
    \/ JoinAndReturn

Spec == Init /\ [][Next]_vars

\* ------------------------------------------------------ chunk in isolation
\* chunk() applied to the lists 1..L, L <= MaxLen, and 1 <= n <= MaxParts.
ChunkInit ==
    /\ mode = "chunk"
    /\ board = from_rows(<<>>)
    /\ pc = "call"
    /\ result = None
    /\ arr \in {[k \in 1 .. L |-> k] : L \in 0 .. MaxLen}
    /\ n \in 1 .. MaxParts
    /\ chunks = <<>>
    /\ processes = <<>>
    /\ idx = 0
    /\ queue = <<>>
    /\ solution = None
    /\ arrivals = <<>>
    /\ joined = {}
    /\ calls = <<>>

ChunkCall ==
    /\ mode = "chunk"
    /\ pc = "call"
    /\ chunks' = chunk(arr, n)
    /\ pc' = "chunked"
    /\ UNCHANGED <<mode, board, result, arr, n, parallel_vars, calls>>

ChunkNext == ChunkCall

ChunkSpec == ChunkInit /\ [][ChunkNext]_vars

\* ------------------------------------------------------------- properties
\* Replaying steps from b: every tap is a legal move and the last board is
\* solved.
RECURSIVE is_solution_valid(_, _)
is_solution_valid(b, steps) ==
    IF steps = <<>> THEN is_solved(b)
    ELSE /\ is_legal(b, Head(steps))
         /\ is_solution_valid(pop_from(b, Head(steps)), Tail(steps))

\* Some sequence of legal moves from b reaches a solved board.
RECURSIVE Solvable(_)
Solvable(b) ==
    \/ is_solved(b)
    \/ \E c \in Coords : is_legal(b, c) /\ Solvable(pop_from(b, c))

RECURSIVE flatten(_)
flatten(parts) == IF parts = <<>> THEN <<>> ELSE Head(parts) \o flatten(Tail(parts))

PutCount(i) == Cardinality({k \in 1 .. Len(arrivals) : arrivals[k].by = i})

Returned == pc = "done"

\* Every worker has run to its end and none has put anything on the queue.
AllExhausted ==
    /\ mode = "parallel"
    /\ processes # <<>>
    /\ \A i \in DOMAIN processes : processes[i].state = "exited"
    /\ arrivals = <<>>

\* The coordinator waits in queue.get() for a value that no process is left
\* to put.
Hung == AllExhausted /\ pc = "get" /\ queue = <<>>

\* C1: a Solution returned by either solver replays from the input board
\* with legal taps only and ends on a solved board.
SolutionValidity ==
    (Returned /\ result # None) => is_solution_valid(board, result.steps)

SolutionValidityWitness ==
    /\ mode = "parallel"
    /\ Returned
    /\ result # None
    /\ Len(result.steps) >= 2
    /\ is_solution_valid(board, result.steps)

\* C2: on a board the serial solver solves, the parallel solver returns a
\* Solution too (and the other way round): it returns a Solution when it
\* returns, and it is never left hanging without one.
SerialParallelEquivalence ==
    mode = "parallel" =>
        /\ Returned => (result # None <=> solve_board_dfs(board, <<>>) # None)
        /\ Hung => solve_board_dfs(board, <<>>) = None

\* C3: when every worker has exhausted its partition without a solution,
\* parallel_solve does not stay blocked in queue.get(): it is never left
\* waiting on an empty queue with no worker left to put a value (a state
\* with no further step, from which the call cannot return NotFound).
CoordinatorTerminates == ~Hung

\* C4: on a board with a coloured cell and no legal move, both solvers
\* report NotFound and the parallel solver starts no worker.
UnsolvableAtRoot ==
    (~is_solved(board) /\ available_moves(board) = <<>>) =>
        /\ Returned => result = None
        /\ \A i \in DOMAIN processes : processes[i].state = "initial"
        /\ ~Hung

\* C5: on an all-Empty board, both solvers return the empty Solution and
\* the parallel solver starts no worker.
AlreadySolved ==
    is_solved(board) =>
        /\ Returned => result = Steps(<<>>)
        /\ \A i \in DOMAIN processes : processes[i].state = "initial"
        /\ ~Hung

\* C6: the value parallel_solve takes and returns is the first value that
\* arrived on the queue, and before it returns terminate() has been issued
\* to every worker process.
FirstResultWins ==
    /\ pc \in {"terminate", "join", "done"} /\ mode = "parallel" =>
          /\ arrivals # <<>>
          /\ solution = Steps(arrivals[1].steps)
    /\ pc \in {"join", "done"} /\ mode = "parallel" =>
          \A i \in DOMAIN processes : processes[i].terminated
    /\ Returned /\ mode = "parallel" => result = solution

FirstResultWinsWitness ==
    /\ mode = "parallel"
    /\ Returned
    /\ Len(arrivals) >= 2
    /\ arrivals[2].steps # arrivals[1].steps
    /\ result = Steps(arrivals[1].steps)
    /\ \A i \in DOMAIN processes : processes[i].terminated

\* C7: the serial search returns None only for a board from which no
\* sequence of legal moves reaches a solved board.
SerialComplete ==
    (mode = "serial" /\ Returned /\ result = None) => ~Solvable(board)

SerialCompleteWitness ==
    /\ mode = "serial"
    /\ Returned
    /\ result = None
    /\ available_moves(board) # <<>>

\* C8: for 1 <= n <= len(arr), chunk returns n parts whose concatenation is
\* arr.
ChunkLosesNothing ==
    (mode = "chunk" /\ pc = "chunked" /\ n <= Len(arr)) =>
        /\ Len(chunks) = n
        /\ flatten(chunks) = arr

\* C9: with fewer root moves than workers, every root move is in some
\* partition, exactly the excess workers have an empty partition, and a
\* worker with an empty partition that has finished has reported on the
\* queue.
FewerMovesThanWorkers ==
    (mode = "parallel" /\ pc # "call" /\ Len(arr) < n) =>
        /\ flatten(chunks) = arr
        /\ Cardinality({i \in DOMAIN chunks : chunks[i] = <<>>}) = n - Len(arr)
        /\ \A i \in DOMAIN processes :
              (processes[i].args = <<>> /\ processes[i].state = "exited")
                  => PutCount(i) >= 1

\* C10: a worker that has put a Solution on the queue explores nothing
\* further (and so puts at most one).
WorkerStopsAtFirstSuccess ==
    [][\A i \in DOMAIN processes :
          PutCount(i) >= 1 => processes'[i].stack = processes[i].stack]_vars

\* The coordinator's state of section 4.3: the queue.get() that returns moves
\* it from Dispatched to Resolved; an exception leaving parallel_solve is the
\* system-level failure of section 7.
CoordState ==
    IF pc = "call" THEN "Idle"
    ELSE IF pc \in {"start", "get"} THEN "Dispatched"
    ELSE IF pc = "raised" THEN "Failed"
    ELSE IF solution # None THEN "Resolved"
    ELSE "Exhausted"

CoordTransitions ==
    {<<"Idle", "Dispatched">>, <<"Dispatched", "Resolved">>,
     <<"Dispatched", "Exhausted">>, <<"Dispatched", "Failed">>}

\* No process of the call has a step left.
CallOver ==
    /\ mode = "parallel"
    /\ pc \notin {"call", "start", "terminate", "join"}
    /\ pc = "get" => queue = <<>>
    /\ \A i \in DOMAIN processes : processes[i].state # "started"

\* C11: the coordinator moves only Idle -> Dispatched -> Resolved or
\* Exhausted; after resolution the value it holds does not change whatever
\* arrives, after the return nothing changes, and a call that is over has
\* returned its one outcome.
CoordinatorStateMachine ==
    /\ [][mode = "parallel" =>
            /\ CoordState' # CoordState => <<CoordState, CoordState'>> \in CoordTransitions
            /\ CoordState \in {"Resolved", "Exhausted"} => solution' = solution
            /\ Returned => (pc' = pc /\ result' = result)]_vars
    /\ [](CallOver => (Returned \/ pc = "raised"))

\* C12: the coordinator takes at most one value from the queue, and when
\* parallel_solve has returned no value is left in the queue.
QueueLeftClean ==
    mode = "parallel" =>
        /\ Len(arrivals) - Len(queue) <= 1
        /\ Returned => queue = <<>>

\* Coordinator steps between the received Solution and the return.
CoordinatorStepsLeft ==
    IF pc = "terminate" THEN (Len(processes) - idx) + 2
    ELSE IF pc = "join" THEN 1
    ELSE 0

\* C13: once a Solution has been received the coordinator's next step is
\* never blocked by a worker, and at most one terminate() per process and
\* one join() separate it from the return.
CancellationDoesNotWait ==
    mode = "parallel" =>
        /\ pc = "terminate" => ENABLED Terminate
        /\ pc = "join" => ENABLED JoinAndReturn
        /\ CoordinatorStepsLeft <= NUM_PARALLEL_PROCESSES + 1

CancellationDoesNotWaitWitness ==
    /\ mode = "parallel"
    /\ Returned
    /\ \E i \in DOMAIN processes :
          /\ processes[i].args # <<>>
          /\ processes[i].state = "killed"
          /\ PutCount(i) = 0
          /\ processes[i].stack[Len(processes[i].stack)].moves # <<>>

\* C14: when parallel_solve has returned, every worker process has been
\* terminated and joined and none is running.
WorkerHandlesReleased ==
    (mode = "parallel" /\ Returned) =>
        /\ \A i \in DOMAIN processes :
              processes[i].terminated /\ processes[i].state # "started"
        /\ joined = DOMAIN processes

\* C15: a start() that fails is reported as a failure of the call only when
\* no worker at all was dispatched, and it leaves no started worker running
\* unattended.
StartFailureIsolated ==
    pc = "raised" =>
        \A i \in DOMAIN processes : processes[i].state = "initial"

\* The root-level moves whose recursive search finds a solution.
ValidRootMoves(moves) ==
    {k \in 1 .. Len(moves) : solve_board_dfs(moves[k][2], <<>>) # None}

FirstValid(moves) ==
    CHOOSE k \in ValidRootMoves(moves) : \A j \in ValidRootMoves(moves) : k <= j

FirstInOrder(moves) ==
    /\ ValidRootMoves(moves) = {} => result = None
    /\ ValidRootMoves(moves) # {} =>
          /\ result = Steps(<<moves[FirstValid(moves)][1]>>
                            \o solve_board_dfs(moves[FirstValid(moves)][2], <<>>).steps)
          /\ calls[Len(calls)] = result.steps

\* C16: on an unsolved board solve_board_dfs returns the move of the first
\* root-level entry whose recursive search is not None, followed by that
\* search's result, and the call that found it is the last call made.
SerialFirstInOrder ==
    (mode = "serial" /\ Returned /\ ~is_solved(board)) =>
        FirstInOrder(available_moves(board))

SerialFirstInOrderWitness ==
    /\ mode = "serial"
    /\ Returned
    /\ result # None
    /\ ValidRootMoves(available_moves(board)) # {}
    /\ FirstValid(available_moves(board)) >= 2
    /\ FirstValid(available_moves(board)) < Len(available_moves(board))
    /\ calls[Len(calls)] = result.steps

\* C17: one run of solution_search over all the moves of an unsolved board
\* puts a value exactly when solve_board_dfs returns a Solution, and the
\* first value it puts is that Solution.
WorkerRefinesSerial ==
    (mode = "search" /\ pc = "search" /\ ~is_solved(board)) =>
        /\ arrivals # <<>> => Steps(arrivals[1].steps) = solve_board_dfs(board, <<>>)
        /\ (processes[1].state = "exited" /\ arrivals = <<>>)
              => solve_board_dfs(board, <<>>) = None

WorkerRefinesSerialWitness ==
    /\ mode = "search"
    /\ pc = "search"
    /\ ~is_solved(board)
    /\ processes[1].state = "exited"
    /\ Len(arrivals) >= 2
    /\ arrivals[2].steps # arrivals[1].steps
    /\ Steps(arrivals[1].steps) = solve_board_dfs(board, <<>>)

Colored(b) == Cardinality({c \in Coords : at(b, c) # EmptyColor})

\* The board reached from b by the taps of steps.
RECURSIVE replay(_, _)
replay(b, steps) ==
    IF steps = <<>> THEN b ELSE replay(pop_from(b, Head(steps)), Tail(steps))

FrameWithinBound(f) ==
    /\ 2 * Len(f.steps) <= Colored(board)
    /\ \A k \in 1 .. Len(f.moves) :
          Colored(f.moves[k][2]) + 2 * (Len(f.steps) + 1) <= Colored(board)

\* C18: every move along a branch takes at least two coloured cells away
\* and adds none, so every call of solve_board_dfs and every activation of
\* solution_search is at depth at most half the coloured cells of the input
\* board, and no Solution is longer than that.
SearchDepthBounded ==
    /\ \A k \in 1 .. Len(calls) :
          Colored(replay(board, calls[k])) + 2 * Len(calls[k]) <= Colored(board)
    /\ (Returned /\ result # None) => 2 * Len(result.steps) <= Colored(board)
    /\ \A i \in DOMAIN processes :
          \A d \in 1 .. Len(processes[i].stack) : FrameWithinBound(processes[i].stack[d])
    /\ \A k \in 1 .. Len(arrivals) : 2 * Len(arrivals[k].steps) <= Colored(board)

SearchDepthBoundedWitness ==
    /\ mode = "serial"
    /\ Returned
    /\ result # None
    /\ Len(result.steps) >= 2
    /\ 2 * Len(result.steps) + 1 >= Colored(board)
    /\ Len(calls) > Len(result.steps) + 1

====
